---- MODULE Spec2Model ----
(***************************************************************************)
(* A model of the VsportsAPI client (src/vsports/vsports.py): the          *)
(* constructor, the request dispatcher _request with its read-through      *)
(* Redis cache (_get_cache, _set_cache), and the endpoint methods          *)
(* events_by_date and teams_by_tournament.                                 *)
(*                                                                         *)
(* Python values are records with one shape, so that Python's truth test   *)
(* and the JSON conversions can be stated on them.  JSON text is a         *)
(* sequence of tokens; json.dumps and json.loads are computed on it.       *)
(***************************************************************************)
EXTENDS Integers, Sequences, FiniteSets, TLC

(***************************************************************************)
(* Bounds of the model.                                                    *)
(***************************************************************************)
MaxCalls == 2       \* dispatches started in one behaviour
TimeStep == 150     \* time units that pass in one Elapse step

(***************************************************************************)
(* Python values.  t is the type; n holds an int or a bool (1/0), s a str, *)
(* elems the items of a list, pairs the <<key, value>> items of a dict in  *)
(* insertion order (keys are distinct).  Items are scalars.                *)
(***************************************************************************)
PyVal(t, n, s, elems, pairs) ==
    [t |-> t, n |-> n, s |-> s, elems |-> elems, pairs |-> pairs]

None == PyVal("none", 0, "", <<>>, <<>>)
PyBool(b) == PyVal("bool", IF b THEN 1 ELSE 0, "", <<>>, <<>>)
PyInt(n) == PyVal("int", n, "", <<>>, <<>>)
PyStr(s) == PyVal("str", 0, s, <<>>, <<>>)
PyList(elems) == PyVal("list", 0, "", elems, <<>>)
PyDict(pairs) == PyVal("dict", 0, "", <<>>, pairs)

\* Python's truth test of a value (`if x:`, `not x`, `a and b`).
Truthy(v) ==
    CASE v.t = "none" -> FALSE
      [] v.t = "bool" -> v.n # 0
      [] v.t = "int"  -> v.n # 0
      [] v.t = "str"  -> v.s # ""
      [] v.t = "list" -> v.elems # <<>>
      [] v.t = "dict" -> v.pairs # <<>>
      [] OTHER        -> TRUE

\* Python's truth test of a bytes object (what redis GET returns).
TruthyBytes(text) == Len(text) > 0

\* d.get(key, default) on the pairs of a dict.
RECURSIVE DictGet(_, _, _)
DictGet(pairs, key, default) ==
    IF pairs = <<>> THEN default
    ELSE IF Head(pairs)[1] = key THEN Head(pairs)[2]
    ELSE DictGet(Tail(pairs), key, default)

DictKeys(pairs) == {pairs[i][1] : i \in 1..Len(pairs)}

(***************************************************************************)
(* JSON text: a sequence of tokens.                                        *)
(***************************************************************************)
Tok(k, s, n) == [k |-> k, s |-> s, n |-> n]
Punct(p) == Tok("p", p, 0)
IntT(n) == Tok("i", "", n)
StrT(s) == Tok("s", s, 0)

\* The order of str keys under sorted(): code point order of the key names
\* that occur.
KeyOrder == <<"db", "end_date", "host", "id", "name", "page", "page_size",
              "port", "start_date", "ttl", "usecache">>
KeyRank(k) == CHOOSE i \in 1..Len(KeyOrder) : KeyOrder[i] = k

RECURSIVE InsertByKey(_, _)
InsertByKey(pair, sorted) ==
    IF sorted = <<>> THEN <<pair>>
    ELSE IF KeyRank(pair[1]) < KeyRank(Head(sorted)[1]) THEN <<pair>> \o sorted
    ELSE <<Head(sorted)>> \o InsertByKey(pair, Tail(sorted))

\* The items of a dict in sorted key order (json.dumps(..., sort_keys=True)).
RECURSIVE SortPairs(_)
SortPairs(pairs) ==
    IF pairs = <<>> THEN <<>>
    ELSE InsertByKey(Head(pairs), SortPairs(Tail(pairs)))

DumpsScalar(v) ==
    CASE v.t = "none" -> <<Punct("null")>>
      [] v.t = "bool" -> <<Punct(IF v.n # 0 THEN "true" ELSE "false")>>
      [] v.t = "int"  -> <<IntT(v.n)>>
      [] v.t = "str"  -> <<StrT(v.s)>>

RECURSIVE DumpsElems(_)
DumpsElems(elems) ==
    IF elems = <<>> THEN <<>>
    ELSE IF Len(elems) = 1 THEN DumpsScalar(elems[1])
    ELSE DumpsScalar(elems[1]) \o <<Punct(",")>> \o DumpsElems(Tail(elems))

RECURSIVE DumpsPairs(_)
DumpsPairs(pairs) ==
    IF pairs = <<>> THEN <<>>
    ELSE LET one == <<StrT(pairs[1][1]), Punct(":")>> \o DumpsScalar(pairs[1][2])
         IN IF Len(pairs) = 1 THEN one
            ELSE one \o <<Punct(",")>> \o DumpsPairs(Tail(pairs))

\* json.dumps(v, sort_keys=sort_keys)
Dumps(v, sort_keys) ==
    CASE v.t = "list" -> <<Punct("[")>> \o DumpsElems(v.elems) \o <<Punct("]")>>
      [] v.t = "dict" -> <<Punct("{")>>
                         \o DumpsPairs(IF sort_keys THEN SortPairs(v.pairs)
                                       ELSE v.pairs)
                         \o <<Punct("}")>>
      [] OTHER        -> DumpsScalar(v)

IsScalarTok(tok) ==
    \/ tok.k \in {"i", "s"}
    \/ tok.k = "p" /\ tok.s \in {"null", "true", "false"}

ScalarOf(tok) ==
    CASE tok.k = "i" -> PyInt(tok.n)
      [] tok.k = "s" -> PyStr(tok.s)
      [] tok.k = "p" /\ tok.s = "true"  -> PyBool(TRUE)
      [] tok.k = "p" /\ tok.s = "false" -> PyBool(FALSE)
      [] OTHER -> None

Parsed(ok, val) == [ok |-> ok, val |-> val]
ParseFail == Parsed(FALSE, None)

\* scalar ("," scalar)*
RECURSIVE ParseElems(_, _)
ParseElems(toks, acc) ==
    IF toks = <<>> \/ ~IsScalarTok(toks[1]) THEN ParseFail
    ELSE IF Len(toks) = 1 THEN Parsed(TRUE, PyList(Append(acc, ScalarOf(toks[1]))))
    ELSE IF toks[2] # Punct(",") THEN ParseFail
    ELSE ParseElems(SubSeq(toks, 3, Len(toks)), Append(acc, ScalarOf(toks[1])))

\* a dict built item by item: a repeated key keeps its place and takes the
\* later value
DictSet(pairs, key, val) ==
    IF key \in DictKeys(pairs)
    THEN [i \in 1..Len(pairs) |->
             IF pairs[i][1] = key THEN <<key, val>> ELSE pairs[i]]
    ELSE Append(pairs, <<key, val>>)

\* str ":" scalar ("," str ":" scalar)*
RECURSIVE ParsePairs(_, _)
ParsePairs(toks, acc) ==
    IF Len(toks) < 3 THEN ParseFail
    ELSE IF toks[1].k # "s" \/ toks[2] # Punct(":") \/ ~IsScalarTok(toks[3])
    THEN ParseFail
    ELSE LET more == DictSet(acc, toks[1].s, ScalarOf(toks[3]))
         IN IF Len(toks) = 3 THEN Parsed(TRUE, PyDict(more))
            ELSE IF toks[4] # Punct(",") THEN ParseFail
            ELSE ParsePairs(SubSeq(toks, 5, Len(toks)), more)

\* json.loads(text): ok is FALSE where it raises JSONDecodeError.
Loads(text) ==
    IF text = <<>> THEN ParseFail
    ELSE IF Len(text) = 1
    THEN IF IsScalarTok(text[1]) THEN Parsed(TRUE, ScalarOf(text[1])) ELSE ParseFail
    ELSE LET inner == SubSeq(text, 2, Len(text) - 1)
         IN CASE text[1] = Punct("[") /\ text[Len(text)] = Punct("]") ->
                   IF inner = <<>> THEN Parsed(TRUE, PyList(<<>>))
                   ELSE ParseElems(inner, <<>>)
              [] text[1] = Punct("{") /\ text[Len(text)] = Punct("}") ->
                   IF inner = <<>> THEN Parsed(TRUE, PyDict(<<>>))
                   ELSE ParsePairs(inner, <<>>)
              [] OTHER -> ParseFail

(***************************************************************************)
(* The inputs of the model.                                                *)
(***************************************************************************)
Callers == {1, 2}

NoId == 0 - 1
Endpoint(path, id) == [path |-> path, id |-> id]
NoEndpoint == Endpoint("", NoId)

\* redis_config arguments: none, an empty mapping (every field left to its
\* default), a mapping without ttl, a mapping with ttl.
RedisConfigs ==
    { None,
      PyDict(<<>>),
      PyDict(<< <<"host", PyStr("localhost")>> >>),
      PyDict(<< <<"host", PyStr("localhost")>>, <<"ttl", PyInt(100)>> >>) }

\* The keyword arguments of a call: usecache absent, True, False, not a bool.
KwargSets ==
    { <<>>,
      << <<"usecache", PyBool(TRUE)>> >>,
      << <<"usecache", PyBool(FALSE)>> >>,
      << <<"usecache", PyInt(1)>> >> }

\* Parameter mappings handed to _request directly: none, and one mapping in
\* its two insertion orders.
\* The keyword arguments of the calls of the endpoint methods.
MethodKwargSets ==
    { <<>>,
      << <<"usecache", PyBool(TRUE)>> >> }

ParamSets ==
    { None,
      PyDict(<< <<"start_date", PyStr("2025-01-24")>>, <<"page", PyInt(0)>> >>),
      PyDict(<< <<"page", PyInt(0)>>, <<"start_date", PyStr("2025-01-24")>> >>) }

TournamentIds == {118}

StartDates == {PyStr("2025-01-24")}
EndDates == {None, PyStr(""), PyStr("2025-01-25")}
Pages == {None, PyInt(0)}
PageSizes == {None, PyInt(50)}

\* Bodies the upstream returns with status 200: an empty array and an
\* object.
Payloads ==
    { PyList(<<>>),
      PyDict(<< <<"id", PyInt(1)>>, <<"name", PyStr("x")>> >>) }

\* Status codes of the upstream's responses, one of each class met.
Statuses == {200, 204, 404}

\* Values other users of the shared store leave under a vsports: key:
\* truncated JSON, JSON that is not a response body, and nothing.
ForeignTexts ==
    { <<Punct("["), IntT(1)>>,
      <<IntT(0)>>,
      <<>> }

(***************************************************************************)
(* The state.                                                              *)
(***************************************************************************)
VARIABLES
    constructed,   \* "no", "ok" (a client exists), "failed" (__init__ raised)
    redis_config,  \* the redis_config argument __init__ was given
    redis_client,  \* self.redis_client: "None" or "Redis"
    redis_ttl,     \* self.redis_ttl (0: the attribute is not set)
    pings,         \* liveness checks made by __init__
    redis,         \* the store: key -> entry, for the keys that are live
    frame,         \* per caller: the locals of its call of _request
    calls,         \* dispatches started
    stores,        \* SETEX commands executed
    expired,       \* the keys whose entry has expired and was not stored again
    called         \* per caller: the method it called, with its arguments

vars == <<constructed, redis_config, redis_client, redis_ttl, pings,
          redis, frame, calls, stores, expired, called>>

client == <<constructed, redis_config, redis_client, redis_ttl, pings>>

base_url == "https://extended.vsports.pt/api"
DefaultTTL == 300

NoKey == [ns |-> "", endpoint |-> NoEndpoint, params |-> <<>>]
NoData == [found |-> FALSE, text |-> <<>>]
NoResponse == [status |-> 0, text |-> <<>>]
NoUrl == [base |-> "", endpoint |-> NoEndpoint]
NoOutcome == [kind |-> "none", value |-> None, status |-> 0]

Returned(v) == [kind |-> "return", value |-> v, status |-> 0]
Raised(kind, status) == [kind |-> kind, value |-> None, status |-> status]

\* Where an entry comes from: the request the upstream answered, with the
\* status and the body of its answer.
Source(endpoint, params, status, body) ==
    [endpoint |-> endpoint, params |-> params, status |-> status, body |-> body]
NoSource == Source(NoEndpoint, None, 0, None)

\* A live entry: the text SETEX stored, the ttl it was stored with, the time
\* it has left, the value the storing dispatch returned and its source.
Entry(text, ttl, val, src) ==
    [text |-> text, ttl |-> ttl, left |-> ttl, val |-> val, src |-> src]
NoEntry == Entry(<<>>, 0, None, NoSource)

\* A call of a method: events_by_date with its arguments, or another method.
Call(method, start_date, end_date, page, page_size) ==
    [method |-> method, start_date |-> start_date, end_date |-> end_date,
     page |-> page, page_size |-> page_size]
NoCall == Call("", None, None, None, None)

\* The frame of a caller that is in no call.  Besides the arguments and the
\* locals of _request (usecache, cache_key, cached_data, url, response, data)
\* a frame records: primed, whether an entry lay under the key when the call
\* began; seen, the value that entry's storing dispatch returned; wasExpired,
\* whether the key's entry had expired at the lookup; sent, the body the
\* upstream chose; nget, nreq, nset, the lookups, HTTP requests and stores
\* made; stamp, the number of its store among all stores; outcome, what the
\* caller gets.
Idle ==
    [ pc |-> "idle", endpoint |-> NoEndpoint, params |-> None, kwargs |-> <<>>,
      usecache |-> FALSE, cache_key |-> NoKey, cached_data |-> NoData,
      primed |-> FALSE, seen |-> None, wasExpired |-> FALSE, url |-> NoUrl,
      response |-> NoResponse, sent |-> None, data |-> None,
      nget |-> 0, nreq |-> 0, nset |-> 0, stamp |-> 0,
      outcome |-> NoOutcome ]

Init ==
    /\ constructed = "no"
    /\ redis_config = None
    /\ redis_client = "None"
    /\ redis_ttl = 0
    /\ pings = 0
    /\ redis = [k \in {} |-> NoEntry]
    /\ frame = [t \in Callers |-> Idle]
    /\ calls = 0
    /\ stores = 0
    /\ expired = {}
    /\ called = [t \in Callers |-> NoCall]

(***************************************************************************)
(* VsportsAPI.__init__                                                     *)
(***************************************************************************)
\* `if redis_config:` -- whether __init__ takes the cache branch
WantsCache(config) == Truthy(config)

\* redis_config.get("ttl", 300)
TtlOf(config) == DictGet(config.pairs, "ttl", PyInt(DefaultTTL)).n

\* reachable: whether the Redis server answers the ping
Construct(config, reachable) ==
    /\ constructed = "no"
    /\ redis_config' = config
    /\ IF WantsCache(config)
       THEN IF reachable
            THEN \* redis.Redis(...), ping() answers, the ttl is read
                 /\ constructed' = "ok"
                 /\ redis_client' = "Redis"
                 /\ pings' = pings + 1
                 /\ redis_ttl' = TtlOf(config)
            ELSE \* ping() raises ConnectionError out of __init__
                 /\ constructed' = "failed"
                 /\ redis_client' = "Redis"
                 /\ pings' = pings + 1
                 /\ UNCHANGED redis_ttl
       ELSE /\ constructed' = "ok"
            /\ redis_client' = "None"
            /\ UNCHANGED <<pings, redis_ttl>>
    /\ UNCHANGED <<redis, frame, calls, stores, expired, called>>

(***************************************************************************)
(* VsportsAPI._request, in the steps between which another caller can run: *)
(* the entry (lines 110-116), the lookup (117-119, with _get_cache), the   *)
(* HTTP exchange (121-131) and the store (128-129, with _set_cache).       *)
(***************************************************************************)
\* (a variant that lacks the isinstance check)
UseCacheOfUnchecked(kwargs) ==
    Truthy(DictGet(kwargs, "usecache", PyBool(FALSE)))

\* kwargs.get("usecache", False), and False unless that is a bool
UseCacheOf(kwargs) ==
    LET usecache == DictGet(kwargs, "usecache", PyBool(FALSE))
    IN IF usecache.t # "bool" THEN FALSE ELSE Truthy(usecache)

\* (a variant that lacks sort_keys=True)
CacheKeyUnsorted(endpoint, params) ==
    [ns |-> "vsports:", endpoint |-> endpoint, params |-> Dumps(params, FALSE)]

\* f"vsports:{endpoint}:{json.dumps(params, sort_keys=True)}"
CacheKey(endpoint, params) ==
    [ns |-> "vsports:", endpoint |-> endpoint, params |-> Dumps(params, TRUE)]

\* (a variant that tests the connection alone)
CachePathIgnoresFlag(usecache) == redis_client # "None"

\* `usecache and self.redis_client`
CachePath(usecache) == usecache /\ redis_client # "None"

\* The entry of _request: the flag is read and, on the cache path, the key
\* is computed.
Request(t, endpoint, params, kwargs) ==
    /\ constructed = "ok"
    /\ frame[t].pc = "idle"
    /\ calls < MaxCalls
    /\ calls' = calls + 1
    /\ LET usecache == UseCacheOf(kwargs)
       IN frame' = [frame EXCEPT ![t] =
              [ Idle EXCEPT
                  !.endpoint = endpoint, !.params = params, !.kwargs = kwargs,
                  !.usecache = usecache,
                  !.primed = /\ CachePath(usecache)
                             /\ CacheKey(endpoint, params) \in DOMAIN redis,
                  !.cache_key = IF CachePath(usecache)
                                THEN CacheKey(endpoint, params) ELSE NoKey,
                  !.pc = IF CachePath(usecache) THEN "get_cache" ELSE "request" ]]
    /\ UNCHANGED <<client, redis, stores, expired>>

\* redis_client.get(key): the text of the live entry, if there is one
RedisGet(key) ==
    IF key \in DOMAIN redis
    THEN [found |-> TRUE, text |-> redis[key].text]
    ELSE NoData

\* `if cached_data:` -- whether _get_cache reaches json.loads
Deserializes(cached_data) == cached_data.found /\ TruthyBytes(cached_data.text)

\* _get_cache(key): the parsed value, None, or (ok FALSE) JSONDecodeError
GetCacheResult(cached_data) ==
    IF Deserializes(cached_data) THEN Loads(cached_data.text)
    ELSE Parsed(TRUE, None)

\* `if cached_response:` -- whether _request returns the cached value
Hit(cached_response) == Truthy(cached_response)

GetCache(t) ==
    /\ frame[t].pc = "get_cache"
    /\ LET f == frame[t]
           cached_data == RedisGet(f.cache_key)
           cached_response == GetCacheResult(cached_data)
           seen == IF cached_data.found THEN redis[f.cache_key].val ELSE None
           g == [f EXCEPT !.cached_data = cached_data, !.seen = seen,
                          !.wasExpired = f.cache_key \in expired,
                          !.nget = f.nget + 1]
       IN frame' = [frame EXCEPT ![t] =
              IF ~cached_response.ok
              THEN \* json.loads raises out of _get_cache and _request
                   [g EXCEPT !.pc = "done",
                             !.outcome = Raised("JSONDecodeError", 0)]
              ELSE IF Hit(cached_response.val)
              THEN [g EXCEPT !.pc = "done",
                             !.outcome = Returned(cached_response.val)]
              ELSE [g EXCEPT !.pc = "request"]]
    /\ UNCHANGED <<client, redis, calls, stores, expired, called>>

\* f"{self.base_url}/{endpoint}"
Url(endpoint) == [base |-> base_url, endpoint |-> endpoint]

\* response.raise_for_status(): HTTPError for a 4xx or 5xx status, and
\* nothing otherwise
RaisesForStatus(status) == 400 <= status /\ status < 600

\* The requests.request call and what follows it up to the store.  The
\* upstream answers with a status and, for 200, a body; or the transport
\* fails.
HttpRequest(t) ==
    /\ frame[t].pc = "request"
    /\ LET f == frame[t]
           g == [f EXCEPT !.url = Url(f.endpoint), !.nreq = f.nreq + 1]
       IN \/ \* a transport error: requests raises
             /\ frame' = [frame EXCEPT ![t] =
                    [g EXCEPT !.pc = "done",
                              !.outcome = Raised("ConnectionError", 0)]]
          \/ \E status \in Statuses \ {200} :
                /\ frame' = [frame EXCEPT ![t] =
                       [g EXCEPT
                          !.pc = "done",
                          !.response = [status |-> status, text |-> <<>>],
                          !.outcome = IF RaisesForStatus(status)
                                      THEN Raised("HTTPError", status)
                                      ELSE Returned(None)]]
          \/ \E body \in Payloads :
                LET text == Dumps(body, FALSE)
                    data == Loads(text).val      \* response.json()
                IN frame' = [frame EXCEPT ![t] =
                          [g EXCEPT
                             !.response = [status |-> 200, text |-> text],
                             !.sent = body,
                             !.data = data,
                             !.pc = IF CachePath(f.usecache)
                                    THEN "set_cache" ELSE "done",
                             !.outcome = IF CachePath(f.usecache)
                                         THEN NoOutcome ELSE Returned(data)]]
    /\ UNCHANGED <<client, redis, calls, stores, expired, called>>

\* (a variant that keeps a live entry: the first write wins)
SetexIfAbsent(key, ttl, text, val, src) ==
    [k \in DOMAIN redis \cup {key} |->
        IF k \in DOMAIN redis THEN redis[k] ELSE Entry(text, ttl, val, src)]

\* (a variant that stores without an expiry, as SET does)
SetexWithoutExpiry(key, ttl, text, val, src) ==
    [k \in DOMAIN redis \cup {key} |->
        IF k = key THEN [Entry(text, ttl, val, src) EXCEPT !.left = 1000 * ttl]
        ELSE redis[k]]

\* redis_client.setex(key, ttl, text): the entry is replaced, its time to
\* live starts again
Setex(key, ttl, text, val, src) ==
    [k \in DOMAIN redis \cup {key} |->
        IF k = key THEN Entry(text, ttl, val, src) ELSE redis[k]]

\* _set_cache(cache_key, data) and `return data`
SetCache(t) ==
    /\ frame[t].pc = "set_cache"
    /\ LET f == frame[t]
       IN /\ redis' = Setex(f.cache_key, redis_ttl, Dumps(f.data, FALSE), f.data,
                            Source(f.endpoint, f.params, f.response.status,
                                   f.sent))
          /\ frame' = [frame EXCEPT ![t] =
                 [f EXCEPT !.pc = "done", !.nset = f.nset + 1,
                           !.stamp = stores + 1,
                           !.outcome = Returned(f.data)]]
    /\ stores' = stores + 1
    /\ expired' = expired \ {frame[t].cache_key}
    /\ UNCHANGED <<client, calls, called>>

\* The caller takes the result or the exception; its frame is gone.
Return(t) ==
    /\ frame[t].pc = "done"
    /\ frame' = [frame EXCEPT ![t] = Idle]
    /\ called' = [called EXCEPT ![t] = NoCall]
    /\ UNCHANGED <<client, redis, calls, stores, expired>>

(***************************************************************************)
(* The endpoint methods.                                                   *)
(***************************************************************************)
\* `if not end_date: end_date = start_date`
EndDateOf(start_date, end_date) ==
    IF ~Truthy(end_date) THEN start_date ELSE end_date

\* (a variant that tests `if v`)
KeptIfTruthy(v) == Truthy(v)

\* `if v is not None` -- whether an item is kept in the mapping
Kept(v) == v # None

RECURSIVE FilterPairs(_)
FilterPairs(pairs) ==
    IF pairs = <<>> THEN <<>>
    ELSE IF Kept(Head(pairs)[2]) THEN <<Head(pairs)>> \o FilterPairs(Tail(pairs))
    ELSE FilterPairs(Tail(pairs))

\* The params mapping events_by_date builds.
EventsParams(start_date, end_date, page, page_size) ==
    PyDict(FilterPairs(<< <<"start_date", start_date>>,
                          <<"end_date", EndDateOf(start_date, end_date)>>,
                          <<"page", page>>,
                          <<"page_size", page_size>> >>))

events_by_date(t, start_date, end_date, page, page_size, kwargs) ==
    /\ Request(t, Endpoint("events", NoId),
               EventsParams(start_date, end_date, page, page_size), kwargs)
    /\ called' = [called EXCEPT ![t] =
           Call("events_by_date", start_date, end_date, page, page_size)]

teams_by_tournament(t, tournament_id, kwargs) ==
    /\ Request(t, Endpoint("teams/by/tournament/", tournament_id), None, kwargs)
    /\ called' = [called EXCEPT ![t] =
           Call("teams_by_tournament", None, None, None, None)]

(***************************************************************************)
(* The store's side: time passes and entries expire; other users of the    *)
(* shared store write under the namespace.                                 *)
(***************************************************************************)
Elapse ==
    /\ DOMAIN redis # {}
    /\ LET live == {k \in DOMAIN redis : redis[k].left > TimeStep}
       IN /\ redis' = [k \in live |-> [redis[k] EXCEPT !.left = @ - TimeStep]]
          /\ expired' = expired \cup (DOMAIN redis \ live)
    /\ UNCHANGED <<client, frame, calls, stores, called>>

ForeignWrite ==
    /\ constructed = "ok"
    /\ redis_client # "None"
    /\ \E t \in Callers, text \in ForeignTexts :
          /\ frame[t].pc = "get_cache"
          /\ redis' = Setex(frame[t].cache_key, DefaultTTL, text, None, NoSource)
          /\ expired' = expired \ {frame[t].cache_key}
    /\ UNCHANGED <<client, frame, calls, stores, called>>

(***************************************************************************)
(* The specifications.                                                     *)
(***************************************************************************)
CallRequest(t) ==
    \E params \in ParamSets, kwargs \in KwargSets :
        /\ Request(t, Endpoint("events", NoId), params, kwargs)
        /\ called' = [called EXCEPT ![t] =
               Call("_request", None, None, None, None)]

CallTeamsByTournament(t) ==
    \E id \in TournamentIds, kwargs \in MethodKwargSets :
        teams_by_tournament(t, id, kwargs)

CallEventsByDate(t) ==
    \E start_date \in StartDates, end_date \in EndDates, page \in Pages,
       page_size \in PageSizes, kwargs \in MethodKwargSets :
        events_by_date(t, start_date, end_date, page, page_size, kwargs)

New == \E config \in RedisConfigs, reachable \in BOOLEAN :
          Construct(config, reachable)

Dispatch == \E t \in Callers : GetCache(t) \/ HttpRequest(t) \/ SetCache(t)

Leave == \E t \in Callers : Return(t)

\* The client used by concurrent callers, the store its own.
Next ==
    \/ New
    \/ \E t \in Callers : CallRequest(t)
    \/ Dispatch
    \/ Leave
    \/ Elapse

Spec == Init /\ [][Next]_vars

\* The same with a store that other users write to.
NextShared == Next \/ ForeignWrite

SpecShared == Init /\ [][NextShared]_vars

\* The endpoint methods, called by one caller at a time.
NextFacade ==
    \/ New
    \/ CallEventsByDate(1)
    \/ CallTeamsByTournament(1)
    \/ GetCache(1) \/ HttpRequest(1) \/ SetCache(1)
    \/ Return(1)
    \/ Elapse

SpecFacade == Init /\ [][NextFacade]_vars

(***************************************************************************)
(* The properties.                                                         *)
(***************************************************************************)
Active(t) == frame[t].pc # "idle"

\* A dispatch on the cache path, told from its inputs.
AsksCache(t) ==
    /\ Active(t)
    /\ "usecache" \in DictKeys(frame[t].kwargs)
    /\ DictGet(frame[t].kwargs, "usecache", None) = PyBool(TRUE)
    /\ redis_client # "None"

\* Two mappings hold the same key-value pairs.
SameMapping(p, q) ==
    /\ p.t = q.t
    /\ {p.pairs[i] : i \in 1..Len(p.pairs)} = {q.pairs[i] : i \in 1..Len(q.pairs)}
    /\ Len(p.pairs) = Len(q.pairs)

Failed(t) ==
    frame[t].outcome.kind \in {"HTTPError", "ConnectionError", "JSONDecodeError"}

\* C1: a dispatch with usecache=True made after a dispatch with the same
\* endpoint and params has stored its result and completed, and whose lookup
\* finds the entry still live, returns the value that dispatch returned and
\* issues no HTTP request.
C1_RepeatIsServedFromCache ==
    \A t \in Callers :
        (AsksCache(t) /\ frame[t].primed /\ frame[t].nget = 1
           /\ frame[t].cached_data.found) =>
            /\ frame[t].pc = "done"
            /\ frame[t].outcome = Returned(frame[t].seen)
            /\ frame[t].nreq = 0

\* C2: a dispatch whose HTTP response has a status other than 200 ends in an
\* HTTP error carrying that status; it hands no value back, not even None.
C2_Non200RaisesHttpError ==
    \A t \in Callers :
        (frame[t].nreq = 1 /\ frame[t].response.status \notin {0, 200}) =>
            /\ frame[t].pc = "done"
            /\ frame[t].outcome = Raised("HTTPError", frame[t].response.status)

\* C3: a dispatch whose lookup finds a value that does not deserialize as
\* JSON does not fail: it goes on to the HTTP request as on a miss.
C3_CorruptEntryIsAMiss ==
    \A t \in Callers :
        (frame[t].nget = 1 /\ frame[t].cached_data.found
           /\ ~Loads(frame[t].cached_data.text).ok) =>
            /\ frame[t].outcome.kind # "JSONDecodeError"
            /\ frame[t].pc = "done" => frame[t].nreq = 1

\* The keys of a serialized mapping are in sorted order.
KeysSorted(pairs) ==
    \A i, j \in 1..Len(pairs) : i < j => KeyRank(pairs[i][1]) < KeyRank(pairs[j][1])

\* C4: the cache key is the namespace, the endpoint and the sorted-key
\* serialization of params; dispatches whose params hold the same pairs in
\* another insertion order have the same key, and an entry stored by one lies
\* under the key the other looks up.
C4_KeyIgnoresInsertionOrder ==
    \A t \in Callers :
        AsksCache(t) =>
            LET f == frame[t]
                read == Loads(f.cache_key.params)
            IN /\ f.cache_key.ns = "vsports:"
               /\ f.cache_key.endpoint = f.endpoint
               /\ read.ok
               /\ SameMapping(read.val, f.params)
               /\ KeysSorted(read.val.pairs)
               /\ \A u \in Callers :
                      (AsksCache(u) /\ frame[u].endpoint = f.endpoint
                         /\ SameMapping(frame[u].params, f.params)) =>
                          frame[u].cache_key = f.cache_key
               /\ \A k \in DOMAIN redis :
                      (redis[k].src.endpoint = f.endpoint
                         /\ SameMapping(redis[k].src.params, f.params)) =>
                          k = f.cache_key

\* C4 happens: a dispatch was served the entry that a dispatch with the
\* other insertion order stored.
C4_Witness ==
    \E t \in Callers :
        LET f == frame[t]
        IN /\ AsksCache(t)
           /\ f.pc = "done"
           /\ f.nreq = 0
           /\ f.cached_data.found
           /\ f.cache_key \in DOMAIN redis
           /\ redis[f.cache_key].src.params # f.params
           /\ f.params.t = "dict"
           /\ f.outcome = Returned(redis[f.cache_key].val)

\* The TTL the constructor was configured with.
ConfiguredTtl ==
    IF "ttl" \in DictKeys(redis_config.pairs)
    THEN DictGet(redis_config.pairs, "ttl", None).n
    ELSE 300

\* Every entry is the serialization of a 200 body of the upstream for the
\* key's endpoint and params, stored with the configured TTL.
C5_EntriesAreUpstreamBodies ==
    \A k \in DOMAIN redis :
        LET e == redis[k]
        IN /\ k.ns = "vsports:"
           /\ e.src.status = 200
           /\ e.src.body \in Payloads
           /\ k.endpoint = e.src.endpoint
           /\ SameMapping(Loads(k.params).val, e.src.params)
           /\ Loads(e.text) = Parsed(TRUE, e.src.body)
           /\ e.ttl = ConfiguredTtl
           /\ 0 < e.left /\ e.left <= e.ttl

\* A step that changes the cache is the store of a cache-path dispatch that
\* got a 200, or the expiry of entries.
C5_OnlyStoresAndExpiryChange ==
    redis' # redis =>
        \/ \E t \in Callers :
              /\ AsksCache(t)
              /\ frame[t].response.status = 200
              /\ frame[t].pc = "set_cache"
              /\ frame'[t].pc = "done"
              /\ frame'[t].outcome.kind = "return"
              /\ DOMAIN redis' = DOMAIN redis \cup {frame[t].cache_key}
              /\ \A k \in DOMAIN redis \ {frame[t].cache_key} : redis'[k] = redis[k]
        \/ /\ frame' = frame
           /\ DOMAIN redis' \subseteq DOMAIN redis
           /\ \A k \in DOMAIN redis' : redis'[k].text = redis[k].text

\* A dispatch that ends in an error made no store, and its last step left
\* the cache as it was.
C5_FailureLeavesCache ==
    \A t \in Callers :
        (Failed(t)' /\ ~Failed(t)) => (redis' = redis /\ frame'[t].nset = 0)

\* C5: the cache changes only through a store that follows a 200 response in
\* a dispatch with usecache=True on a client with a cache connection, or
\* through expiry; every entry holds the serialization of a body the
\* upstream returned with status 200 for the key's endpoint and params,
\* stored with the configured TTL (default 300); a dispatch that ends in an
\* error leaves the cache as it was.
C5_CacheChangesOnlyByStore ==
    /\ []C5_EntriesAreUpstreamBodies
    /\ [][C5_OnlyStoresAndExpiryChange /\ C5_FailureLeavesCache]_vars

\* C5 happens: with an entry in the cache, a cache-path dispatch has failed
\* with an HTTP error.
C5_Witness ==
    \E t \in Callers :
        /\ AsksCache(t)
        /\ frame[t].outcome.kind = "HTTPError"
        /\ DOMAIN redis # {}
        /\ redis_ttl = 100

\* C6: no entry outlives the TTL it was stored with, and a dispatch with
\* usecache=True whose key's entry has expired finds nothing and performs a
\* new HTTP request; what it returns is that request's answer.
C6_ExpiredEntryIsRefetched ==
    /\ \A k \in DOMAIN redis : redis[k].left <= redis_ttl
    /\ \A t \in Callers :
           (AsksCache(t) /\ frame[t].nget = 1 /\ frame[t].wasExpired) =>
               /\ ~frame[t].cached_data.found
               /\ frame[t].pc \in {"request", "set_cache", "done"}
               /\ frame[t].pc # "request" => frame[t].nreq = 1
               /\ frame[t].outcome.kind = "return" =>
                      /\ frame[t].response.status # 0
                      /\ frame[t].response.status = 200 =>
                             frame[t].outcome.value = frame[t].sent

\* C6 happens: a dispatch whose entry had expired has fetched and returned a
\* new body.
C6_Witness ==
    \E t \in Callers :
        /\ AsksCache(t)
        /\ frame[t].wasExpired
        /\ frame[t].pc = "done"
        /\ frame[t].nreq = 1
        /\ frame[t].outcome = Returned(frame[t].sent)
        /\ Truthy(frame[t].sent)

\* C7: a client constructed with a cache configuration (any mapping) has
\* made the liveness check and has its cache connection.
C7_ConfigMeansCache ==
    (constructed # "no" /\ redis_config # None) =>
        /\ pings = 1
        /\ constructed = "ok" => redis_client # "None"

\* What events_by_date is to forward for a call, end_date given end.
EventsForwards(t, end) ==
    LET c == called[t]
        pairs == frame[t].params.pairs
    IN /\ frame[t].endpoint = Endpoint("events", NoId)
       /\ frame[t].params.t = "dict"
       /\ DictKeys(pairs) \subseteq {"start_date", "end_date", "page", "page_size"}
       /\ {"start_date", "end_date"} \subseteq DictKeys(pairs)
       /\ DictGet(pairs, "start_date", None) = c.start_date
       /\ DictGet(pairs, "end_date", None) = end
       /\ "page" \in DictKeys(pairs) <=> c.page # None
       /\ "page_size" \in DictKeys(pairs) <=> c.page_size # None
       /\ DictGet(pairs, "page", None) = c.page
       /\ DictGet(pairs, "page_size", None) = c.page_size

\* C8 as stated: end_date is the given end date, or start_date when none is
\* given.
C8_EndDateAsGiven ==
    \A t \in Callers :
        (Active(t) /\ called[t].method = "events_by_date") =>
            EventsForwards(t, IF called[t].end_date # None
                              THEN called[t].end_date ELSE called[t].start_date)

\* C8, amended: events_by_date forwards the endpoint "events" and a mapping
\* with start_date, with end_date equal to the given end date when that is a
\* non-empty value and to start_date when it is absent or empty, and with
\* page / page_size exactly when a value was given, whatever the value.
C8_EndDateWhenNonEmpty ==
    \A t \in Callers :
        (Active(t) /\ called[t].method = "events_by_date") =>
            EventsForwards(t, IF called[t].end_date \notin {None, PyStr("")}
                              THEN called[t].end_date ELSE called[t].start_date)

\* C8 happens: a call with an empty end date and page 0.
C8_Witness ==
    \E t \in Callers :
        /\ Active(t)
        /\ called[t].method = "events_by_date"
        /\ called[t].end_date = PyStr("")
        /\ called[t].page = PyInt(0)
        /\ called[t].page_size = None

\* A dispatch that does not use the cache, told from its inputs.
Bypasses(t) ==
    /\ Active(t)
    /\ \/ DictGet(frame[t].kwargs, "usecache", PyBool(FALSE)) # PyBool(TRUE)
       \/ redis_client = "None"

\* C9: a dispatch that does not use the cache makes no lookup and no store,
\* issues one HTTP request to base_url/endpoint and, on a 200, returns the
\* upstream's body unchanged.
C9_BypassIsPassThrough ==
    \A t \in Callers :
        Bypasses(t) =>
            LET f == frame[t]
            IN /\ f.nget = 0 /\ f.nset = 0
               /\ f.pc \in {"request", "done"}
               /\ f.pc = "request" => f.nreq = 0
               /\ f.pc = "done" =>
                     /\ f.nreq = 1
                     /\ f.url = [base |-> "https://extended.vsports.pt/api",
                                 endpoint |-> f.endpoint]
                     /\ f.response.status = 200 =>
                            (f.outcome = Returned(f.sent) /\ f.sent \in Payloads)

\* C9 happens: a dispatch with a non-bool usecache returned the upstream's
\* array while the cache held another value for its endpoint and params.
C9_Witness ==
    \E t \in Callers :
        LET f == frame[t]
        IN /\ Bypasses(t)
           /\ f.kwargs = << <<"usecache", PyInt(1)>> >>
           /\ f.pc = "done"
           /\ f.response.status = 200
           /\ f.outcome.value.t = "list"
           /\ \E k \in DOMAIN redis :
                 /\ redis[k].src.endpoint = f.endpoint
                 /\ redis[k].src.params = f.params
                 /\ redis[k].val # f.outcome.value

\* Two dispatches that both stored under one key.
BothStored(t, u) ==
    /\ t # u
    /\ frame[t].pc = "done" /\ frame[u].pc = "done"
    /\ frame[t].nset = 1 /\ frame[u].nset = 1
    /\ frame[t].cache_key = frame[u].cache_key
    /\ frame[t].stamp < frame[u].stamp

\* C10: when two dispatches have both stored under the same key, the entry
\* under it (while it lives) is the one the later store wrote, whole.
C10_LastWriteWins ==
    \A t, u \in Callers :
        (BothStored(t, u) /\ frame[u].cache_key \in DOMAIN redis) =>
            LET e == redis[frame[u].cache_key]
            IN /\ e.text = Dumps(frame[u].data, FALSE)
               /\ e.val = frame[u].outcome.value
               /\ e.src.body = frame[u].sent
               /\ e.ttl = redis_ttl

\* C10 happens: from an empty cache two concurrent dispatches both missed,
\* both issued a request and both stored, with different bodies.
C10_Witness ==
    \E t, u \in Callers :
        /\ BothStored(t, u)
        /\ frame[t].nget = 1 /\ frame[u].nget = 1
        /\ ~frame[t].cached_data.found /\ ~frame[u].cached_data.found
        /\ ~frame[t].wasExpired /\ ~frame[u].wasExpired
        /\ frame[t].nreq = 1 /\ frame[u].nreq = 1
        /\ frame[t].sent # frame[u].sent
        /\ stores = 2
        /\ frame[u].cache_key \in DOMAIN redis

====
